---- MODULE Spec2Model ----
(***************************************************************************)
(* safe_parking_lot: the SafeLock / SafeGuard type-state protocol of       *)
(* src/src/lib.rs over the two bindings src/src/std.rs (std::sync::RwLock, *)
(* poisoning) and src/src/parking_lot.rs (parking_lot::RwLock, guard       *)
(* projection).  Several threads use handles over one underlying lock.     *)
(***************************************************************************)
EXTENDS Naturals, FiniteSets, TLC

\* ------------------------------------------------------------------ bounds
NumThreads == 2
MaxValue == 1

Threads == 1..NumThreads
Values == 0..MaxValue
InitialValue == 0
Bindings == {"std", "parking_lot"}

NoThread == NumThreads + 1
NoVal == MaxValue + 1

\* ------------------------------------------------------------------- state
VARIABLES
    binding,    \* which binding module the lock type comes from
    holder,     \* the underlying RwLock: thread that owns its write guard, or NoThread
    poisoned,   \* the underlying std RwLock's poison flag
    value,      \* the protected value T
    pc,         \* per thread: protocol state of what the thread owns
    op,         \* per thread: the blocking acquire it is suspended in
    handle,     \* per thread: the SafeLock it owns, alone or in SafeGuard.lock
    guard,      \* per thread: the real write guard it owns ("none", "whole", "part")
    res,        \* per thread: the failure value its last call returned
    errGuard,   \* per thread: it owns an error value that holds the write guard
    seen,       \* per thread: what its last deref of the guard read
    written,    \* history: the value written last, and the kind of guard it was
                \* written through ("none" before the first write)
    last,       \* history: the step taken last: thread and operation
    from,       \* history: the protocol state of that thread before the step
    contended   \* history, per thread: its pending blocking acquire was entered while
                \* another thread held the lock

vars == <<binding, holder, poisoned, value, pc, op, handle, guard, res, errGuard, seen,
          written, last, from, contended>>

NoHandle == "none"
LockRef == "lock"

\* --------------------------------------------------------- binding layer
\* std::sync::RwLock::write on a free lock: Err(PoisonError(guard)) when poisoned.
std_lock_blocking(p) == IF p THEN "Poisoned" ELSE "Ok"

\* parking_lot::RwLock::write on a free lock: Ok(self.write()).
pl_lock_blocking(p) == "Ok"

\* As if try_write looked at the poison flag before it tried the lock.
std_lock_immediate_poison_first(held, p) ==
    IF p THEN "Poisoned" ELSE IF held THEN "WouldBlock" ELSE "Ok"

\* std::sync::RwLock::try_write: WouldBlock when held, Poisoned(guard) when poisoned.
std_lock_immediate(held, p) ==
    IF held THEN "WouldBlock" ELSE IF p THEN "Poisoned" ELSE "Ok"

\* As if the non-blocking acquire went through write(): it takes the lock
\* whatever its state.
pl_lock_immediate_waiting(held, p) == "Ok"

\* parking_lot::RwLock::try_write().ok_or(()).
pl_lock_immediate(held, p) == IF held THEN "Unit" ELSE "Ok"

LockBlocking(b, p) ==
    IF b = "std" THEN std_lock_blocking(p) ELSE pl_lock_blocking(p)

LockImmediate(b, held, p) ==
    IF b = "std" THEN std_lock_immediate(held, p) ELSE pl_lock_immediate(held, p)

\* PoisonError<RwLockWriteGuard> and TryLockError::Poisoned own the write guard
\* that write / try_write took before it saw the poison flag.
ErrHoldsGuard(e) == e = "Poisoned"

\* -------------------------------------------------------- protocol layer
\* The value a SafeLock / SafeGuard method returns, as what the caller owns:
\* its protocol state, the handle, the guard in SafeGuard.guard, and the
\* failure value ("Err" is a failure whose detail was discarded).
Owned(p, h, g, e) == [pc |-> p, handle |-> h, guard |-> g, res |-> e]

new(lock) == Owned("Unlocked", lock, "none", "none")

\* r is the result of LockBlocking::lock_blocking(&self.0), unwrapped.
lock_blocking(h, r) == Owned("Inspecting", h, "whole", "none")

\* Err(_) => Err(self): the error, and the guard inside it, is dropped.
try_lock_blocking(h, r) ==
    IF r = "Ok" THEN Owned("Inspecting", h, "whole", "none")
    ELSE Owned("Unlocked", h, "none", "Err")

\* As if the failure detail were discarded, as try_lock_blocking does.
try_lock_blocking_err_discarding(h, r) ==
    IF r = "Ok" THEN Owned("Inspecting", h, "whole", "none")
    ELSE Owned("Unlocked", h, "none", "Err")

\* Err(err) => Err((self, err)): the error is handed to the caller as it is.
try_lock_blocking_err(h, r) ==
    IF r = "Ok" THEN Owned("Inspecting", h, "whole", "none")
    ELSE Owned("Unlocked", h, "none", r)

\* As if the failure path dropped the handle instead of returning it.
try_lock_immediate_losing_handle(h, r) ==
    IF r = "Ok" THEN Owned("Inspecting", h, "whole", "none")
    ELSE Owned("Unlocked", NoHandle, "none", "Err")

try_lock_immediate(h, r) ==
    IF r = "Ok" THEN Owned("Inspecting", h, "whole", "none")
    ELSE Owned("Unlocked", h, "none", "Err")

\* SafeLock::lock_immediate needs L: LockImmediate<Error = Infallible>; the
\* bindings declare Error = () and Error = TryLockError, so no caller of
\* either binding can name it and it has no action here.
try_lock_immediate_err(h, r) ==
    IF r = "Ok" THEN Owned("Inspecting", h, "whole", "none")
    ELSE Owned("Unlocked", h, "none", r)

\* As if upgrade handed back a guard of the same type-state.
Upgraded_staying(p) == p

\* SafeGuard<L, G>::upgrade returns G: the unmapped or the mapped raw guard.
Upgraded(p) == IF p = "Inspecting" THEN "Mutable" ELSE "MappedMutable"

\* As if upgrade dropped the guard and took a new one later.
upgrade_releasing(g) == Owned(Upgraded(g.pc), NoHandle, "none", "none")

\* self.guard: the handle in self.lock is dropped.
upgrade(g) == Owned(Upgraded(g.pc), NoHandle, g.guard, "none")

\* As if unlock leaked the guard (mem::forget) instead of dropping it.
unlock_keeping_guard(g) == Owned("Unlocked", g.handle, g.guard, "none")

\* self.lock: the guard in self.guard is dropped.
unlock(g) == Owned("Unlocked", g.handle, "none", "none")

\* What a caller-supplied FnOnce(G) -> H does with the guard it is given by
\* value: return a projection of it, write through it first, or drop it.
MapKinds == {"project", "write", "release"}
\* A fallible projection may also decline and hand the guard back.
DeclineKinds == {"decline", "write_decline"}
\* FnOnce(&mut T) -> &mut U / Option<&mut U> cannot drop the guard.
RefMapKinds == {"project", "write"}

FnWrites(k) == k \in {"write", "write_decline"}

\* The projections of the given kinds: a kind, and the value it writes if any.
Fns(kinds) ==
    {[kind |-> k, val |-> v] : k \in kinds \ {"write", "write_decline"}, v \in {NoVal}}
    \cup {[kind |-> k, val |-> v] : k \in kinds \cap {"write", "write_decline"},
                                    v \in Values}

\* f(self.guard): the guard the projection returns.
FnGuard(gd, k) == IF gd = "none" \/ k = "release" THEN "none" ELSE "part"

\* As if the projected guard no longer carried the handle to the lock.
map_guard_dropping_handle(g, k) ==
    Owned("MappedInspecting", NoHandle, FnGuard(g.guard, k), "none")

\* SafeGuard { lock: self.lock, guard: f(self.guard) }.
map_guard(g, k) == Owned("MappedInspecting", g.handle, FnGuard(g.guard, k), "none")

try_map_guard(g, k) ==
    IF k \in DeclineKinds THEN Owned(g.pc, g.handle, g.guard, "Err")
    ELSE Owned("MappedInspecting", g.handle, FnGuard(g.guard, k), "none")

try_map_guard_err(g, k) ==
    IF k \in DeclineKinds THEN Owned(g.pc, g.handle, g.guard, "Declined")
    ELSE Owned("MappedInspecting", g.handle, FnGuard(g.guard, k), "none")

\* self.map_guard(|guard| RwLockWriteGuard::map(guard, f))
map(g, k) == map_guard(g, k)

\* self.try_map_guard(|guard| RwLockWriteGuard::try_map(guard, f))
try_map(g, k) == try_map_guard(g, k)

\* As if deref read a copy taken when the lock was created.
deref_stale(gd, v) == InitialValue

\* Deref::deref(&self.guard)
deref(gd, v) == v

\* As if no binding's guard poisoned the lock when dropped during unwinding.
PoisonOnPanic_never(b, p) == p

\* A std write guard dropped while its thread unwinds poisons the lock; a
\* parking_lot guard only unlocks.
PoisonOnPanic(b, p) == p \/ b = "std"

\* The blocking acquires a binding's LockBlocking::Error admits:
\* lock_blocking needs Error = Infallible, which only parking_lot declares.
BlockingOps(b) ==
    IF b = "parking_lot"
    THEN {"lock_blocking", "try_lock_blocking", "try_lock_blocking_err"}
    ELSE {"try_lock_blocking", "try_lock_blocking_err"}

\* -------------------------------------------------------------------- Init
Init ==
    /\ binding \in Bindings
    /\ holder = NoThread
    /\ poisoned = FALSE
    /\ value = InitialValue
    /\ pc = [t \in Threads |-> "Idle"]
    /\ op = [t \in Threads |-> "none"]
    /\ handle = [t \in Threads |-> NoHandle]
    /\ guard = [t \in Threads |-> "none"]
    /\ res = [t \in Threads |-> "none"]
    /\ errGuard = [t \in Threads |-> FALSE]
    /\ seen = [t \in Threads |-> NoVal]
    /\ written = [val |-> InitialValue, via |-> "none"]
    /\ last = [by |-> NoThread, op |-> "none"]
    /\ from = "none"
    /\ contended = [t \in Threads |-> FALSE]

InspectingStates == {"Inspecting", "MappedInspecting"}
UpgradedStates == {"Mutable", "MappedMutable"}

\* What thread t owns, as the self of a SafeGuard method.
Self(t) == [pc |-> pc[t], handle |-> handle[t], guard |-> guard[t], res |-> res[t]]

\* Thread t now owns o; the lock is held by t exactly while one of its values
\* holds the write guard.  What t read through a guard stays what it knows of
\* the value only while that same guard is moved (upgrade).
Become(t, o) ==
    /\ pc' = [pc EXCEPT ![t] = o.pc]
    /\ handle' = [handle EXCEPT ![t] = o.handle]
    /\ guard' = [guard EXCEPT ![t] = o.guard]
    /\ res' = [res EXCEPT ![t] = o.res]
    /\ errGuard' = [errGuard EXCEPT ![t] = @ \/ ErrHoldsGuard(o.res)]
    /\ holder' = IF o.guard # "none" \/ errGuard[t] \/ ErrHoldsGuard(o.res) THEN t
                 ELSE IF holder = t THEN NoThread ELSE holder
    /\ seen' = [seen EXCEPT ![t] = IF o.pc \in UpgradedStates /\ pc[t] \in InspectingStates
                                   THEN @ ELSE NoVal]

\* Thread t completes operation o and writes v through a guard it owns.
Wrote(t, o, v, via) ==
    /\ value' = v
    /\ written' = [val |-> v, via |-> via]
    /\ last' = [by |-> t, op |-> o]
    /\ from' = pc[t]

\* Thread t completes operation o, which writes nothing.
Did(t, o) ==
    /\ last' = [by |-> t, op |-> o]
    /\ from' = pc[t]
    /\ UNCHANGED <<value, written>>

\* ----------------------------------------------------------------- actions
\* SafeLock::new(&lock)
New(t) ==
    /\ pc[t] = "Idle"
    /\ Become(t, new(LockRef))
    /\ Did(t, "new")
    /\ UNCHANGED <<binding, poisoned, op, contended>>

\* A blocking acquire is entered; the thread is suspended in write().
CallBlocking(t) ==
    /\ pc[t] = "Unlocked"
    /\ \E o \in BlockingOps(binding) : op' = [op EXCEPT ![t] = o]
    /\ pc' = [pc EXCEPT ![t] = "Blocked"]
    /\ res' = [res EXCEPT ![t] = "none"]
    /\ contended' = [contended EXCEPT ![t] = holder \notin {t, NoThread}]
    /\ Did(t, "call")
    /\ UNCHANGED <<binding, holder, poisoned, handle, guard, errGuard, seen>>

\* write() returns once the lock is free.
ReturnBlocking(t, o, out) ==
    /\ pc[t] = "Blocked"
    /\ op[t] = o
    /\ holder = NoThread
    /\ Become(t, out)
    /\ op' = [op EXCEPT ![t] = "none"]
    /\ contended' = [contended EXCEPT ![t] = FALSE]
    /\ Did(t, o)
    /\ UNCHANGED <<binding, poisoned>>

LockBlockingReturn(t) ==
    ReturnBlocking(t, "lock_blocking",
                   lock_blocking(handle[t], LockBlocking(binding, poisoned)))

TryLockBlockingReturn(t) ==
    ReturnBlocking(t, "try_lock_blocking",
                   try_lock_blocking(handle[t], LockBlocking(binding, poisoned)))

TryLockBlockingErrReturn(t) ==
    ReturnBlocking(t, "try_lock_blocking_err",
                   try_lock_blocking_err(handle[t], LockBlocking(binding, poisoned)))

\* try_write() never waits: the call is one step.
Immediate(t, o, out) ==
    /\ pc[t] = "Unlocked"
    /\ Become(t, out)
    /\ Did(t, o)
    /\ UNCHANGED <<binding, poisoned, op, contended>>

TryLockImmediate(t) ==
    Immediate(t, "try_lock_immediate",
              try_lock_immediate(handle[t],
                                 LockImmediate(binding, holder # NoThread, poisoned)))

TryLockImmediateErr(t) ==
    Immediate(t, "try_lock_immediate_err",
              try_lock_immediate_err(handle[t],
                                     LockImmediate(binding, holder # NoThread, poisoned)))

Upgrade(t) ==
    /\ pc[t] \in InspectingStates
    /\ Become(t, upgrade(Self(t)))
    /\ Did(t, "upgrade")
    /\ UNCHANGED <<binding, poisoned, op, contended>>

Unlock(t) ==
    /\ pc[t] \in InspectingStates
    /\ Become(t, unlock(Self(t)))
    /\ Did(t, "unlock")
    /\ UNCHANGED <<binding, poisoned, op, contended>>

\* The projection f runs on the guard of t, and t owns what the method returns.
Project(t, f, o, out) ==
    /\ Become(t, out)
    /\ IF FnWrites(f.kind) /\ guard[t] # "none"
       THEN Wrote(t, o, f.val, "projection")
       ELSE Did(t, o)
    /\ UNCHANGED <<binding, poisoned, op, contended>>

MapGuard(t) ==
    /\ pc[t] \in InspectingStates
    /\ \E f \in Fns(MapKinds) : Project(t, f, "map_guard", map_guard(Self(t), f.kind))

TryMapGuard(t) ==
    /\ pc[t] \in InspectingStates
    /\ \E f \in Fns(MapKinds \cup DeclineKinds) :
           Project(t, f, "try_map_guard", try_map_guard(Self(t), f.kind))

TryMapGuardErr(t) ==
    /\ pc[t] \in InspectingStates
    /\ \E f \in Fns(MapKinds \cup DeclineKinds) :
           Project(t, f, "try_map_guard_err", try_map_guard_err(Self(t), f.kind))

\* parking_lot only, on the unmapped SafeRwLockGuard only.
Map(t) ==
    /\ binding = "parking_lot"
    /\ pc[t] = "Inspecting"
    /\ \E f \in Fns(RefMapKinds) : Project(t, f, "map", map(Self(t), f.kind))

TryMap(t) ==
    /\ binding = "parking_lot"
    /\ pc[t] = "Inspecting"
    /\ \E f \in Fns(RefMapKinds \cup DeclineKinds) :
           Project(t, f, "try_map", try_map(Self(t), f.kind))

\* *guard through the SafeGuard: needs G: Deref, so a guard is there.
Deref(t) ==
    /\ pc[t] \in InspectingStates
    /\ guard[t] # "none"
    /\ seen' = [seen EXCEPT ![t] = deref(guard[t], value)]
    /\ Did(t, "deref")
    /\ UNCHANGED <<binding, holder, poisoned, pc, op, handle, guard, res, errGuard,
                   contended>>

\* *guard = v through the guard upgrade returned.
Write(t) ==
    /\ pc[t] \in UpgradedStates
    /\ guard[t] # "none"
    /\ \E v \in Values : Wrote(t, "write", v, "upgraded")
    /\ seen' = [seen EXCEPT ![t] = NoVal]
    /\ UNCHANGED <<binding, holder, poisoned, pc, op, handle, guard, res, errGuard,
                   contended>>

\* The guard upgrade returned goes out of scope.
Drop(t) ==
    /\ pc[t] \in UpgradedStates
    /\ Become(t, Owned("Idle", NoHandle, "none", "none"))
    /\ Did(t, "drop")
    /\ UNCHANGED <<binding, poisoned, op, contended>>

\* *err.get_mut() = v: the guard inside a PoisonError is a write guard.
ErrWrite(t) ==
    /\ errGuard[t]
    /\ pc[t] = "Unlocked"
    /\ \E v \in Values : Wrote(t, "err_write", v, "error")
    /\ UNCHANGED <<binding, holder, poisoned, pc, op, handle, guard, res, errGuard,
                   seen, contended>>

\* The error value goes out of scope, and the guard inside it with it.
DropErr(t) ==
    /\ pc[t] = "Unlocked"
    /\ res[t] # "none"
    /\ res' = [res EXCEPT ![t] = "none"]
    /\ errGuard' = [errGuard EXCEPT ![t] = FALSE]
    /\ holder' = IF errGuard[t] THEN NoThread ELSE holder
    /\ Did(t, "drop_err")
    /\ UNCHANGED <<binding, poisoned, pc, op, handle, guard, seen, contended>>

\* The thread terminates abnormally while it owns the write guard.
Panic(t) ==
    /\ holder = t
    /\ pc' = [pc EXCEPT ![t] = "Dead"]
    /\ op' = [op EXCEPT ![t] = "none"]
    /\ handle' = [handle EXCEPT ![t] = NoHandle]
    /\ guard' = [guard EXCEPT ![t] = "none"]
    /\ res' = [res EXCEPT ![t] = "none"]
    /\ errGuard' = [errGuard EXCEPT ![t] = FALSE]
    /\ seen' = [seen EXCEPT ![t] = NoVal]
    /\ holder' = NoThread
    /\ poisoned' = PoisonOnPanic(binding, poisoned)
    /\ contended' = [contended EXCEPT ![t] = FALSE]
    /\ Did(t, "panic")
    /\ UNCHANGED binding

Next ==
    \E t \in Threads :
        \/ New(t)
        \/ CallBlocking(t)
        \/ LockBlockingReturn(t)
        \/ TryLockBlockingReturn(t)
        \/ TryLockBlockingErrReturn(t)
        \/ TryLockImmediate(t)
        \/ TryLockImmediateErr(t)
        \/ Upgrade(t)
        \/ Unlock(t)
        \/ MapGuard(t)
        \/ TryMapGuard(t)
        \/ TryMapGuardErr(t)
        \/ Map(t)
        \/ TryMap(t)
        \/ Deref(t)
        \/ Write(t)
        \/ Drop(t)
        \/ ErrWrite(t)
        \/ DropErr(t)
        \/ Panic(t)

Spec == Init /\ [][Next]_vars

\* A thread that follows the caller protocol lets go of what it holds: it
\* unlocks or upgrades an inspection guard, drops an upgraded guard, and drops
\* a failure value.
Release(t) == Unlock(t) \/ Upgrade(t) \/ Drop(t) \/ DropErr(t)

\* write() hands the lock to a suspended caller.
Return(t) ==
    LockBlockingReturn(t) \/ TryLockBlockingReturn(t) \/ TryLockBlockingErrReturn(t)

\* Scheduling: a running thread that can release keeps doing so (weak
\* fairness), and a caller suspended in write() is granted a lock that is free
\* again and again (strong fairness: the most a lock's queue gives; under weak
\* fairness alone the behaviours are a superset of these).
FairSpec ==
    /\ Spec
    /\ \A t \in Threads : WF_vars(Release(t))
    /\ \A t \in Threads : SF_vars(Return(t))

\* ------------------------------------------------------------ properties
TryAcquireOps == {"try_lock_blocking", "try_lock_blocking_err",
                  "try_lock_immediate", "try_lock_immediate_err"}
ImmediateOps == {"try_lock_immediate", "try_lock_immediate_err"}
TryMapOps == {"try_map_guard", "try_map_guard_err", "try_map"}

\* C1: the protected value is never written unless upgrade was called first
\* on the guard that holds the lock: every write is a write through an
\* upgraded guard by the thread that holds the lock.
C1_NoWriteBeforeUpgrade ==
    /\ written.via \in {"none", "upgraded"}
    /\ last.op \in {"write", "err_write"} =>
           /\ pc[last.by] \in UpgradedStates
           /\ holder = last.by

\* C2: whenever a thread owns a SafeGuard (inspection or mapped inspection),
\* the underlying write lock is held by that thread.
C2_GuardImpliesLockHeld ==
    \A t \in Threads : pc[t] \in InspectingStates => holder = t

\* A live guard: a SafeGuard, or the real guard that upgrade returned.
LiveGuard(t) ==
    \/ pc[t] \in InspectingStates
    \/ pc[t] \in UpgradedStates /\ guard[t] # "none"

\* C3: at most one live guard (inspection, mapped inspection or upgraded)
\* over the lock exists at any time.
C3_AtMostOneLiveGuard ==
    Cardinality({t \in Threads : LiveGuard(t)}) <= 1

\* C4: upgrade never fails and neither releases nor re-acquires the lock:
\* from the acquire to the drop of the upgraded guard the lock stays held by
\* the same thread, and what the thread read through the inspection guard is
\* still the protected value up to its first write through the upgraded guard.
C4_UpgradeKeepsLock ==
    /\ \A t \in Threads :
           pc[t] \in {"Inspecting", "Mutable"} =>
               /\ holder = t
               /\ guard[t] = "whole"
               /\ seen[t] # NoVal => seen[t] = value
    /\ last.op = "upgrade" =>
           /\ pc[last.by] \in UpgradedStates
           /\ res[last.by] = "none"

\* A thread has read the value, upgraded, and not yet written, while another
\* thread is suspended in a blocking acquire of the same lock.
C4_Witness ==
    \E t, u \in Threads :
        /\ last = [by |-> t, op |-> "upgrade"]
        /\ pc[t] = "Mutable"
        /\ seen[t] = value
        /\ pc[u] = "Blocked"

\* C5: a failed try_* acquire leaves the caller Unlocked with its original
\* handle and no guard on the lock, and the lock as it was before the call.
C5_FailedAcquireRestores ==
    [][\A t \in Threads :
          (last'.by = t /\ last'.op \in TryAcquireOps /\ pc'[t] = "Unlocked") =>
              /\ handle'[t] = handle[t]
              /\ guard'[t] = "none"
              /\ ~errGuard'[t]
              /\ holder' = holder
              /\ poisoned' = poisoned
              /\ value' = value]_vars

\* The result each acquire would give through handle h in the current state.
Attempts(h) ==
    LET rb == LockBlocking(binding, poisoned)
        ri == LockImmediate(binding, holder # NoThread, poisoned)
    IN  <<lock_blocking(h, rb), try_lock_blocking(h, rb), try_lock_blocking_err(h, rb),
          try_lock_immediate(h, ri), try_lock_immediate_err(h, ri)>>

\* C6: after a failed try_* acquire, an attempt with the returned handle
\* gives what the same attempt gives with a freshly constructed handle.
C6_ReturnedHandleAsFresh ==
    \A t \in Threads :
        (last.by = t /\ last.op \in TryAcquireOps /\ pc[t] = "Unlocked") =>
            Attempts(handle[t]) = Attempts(new(LockRef).handle)

\* A try_* acquire has just failed on a lock another thread holds.
C6_Witness ==
    \E t \in Threads :
        /\ last.by = t
        /\ last.op \in TryAcquireOps
        /\ pc[t] = "Unlocked"
        /\ res[t] # "none"
        /\ holder \notin {t, NoThread}

\* C7: a successful acquire followed by unlock returns a handle over the
\* same lock, with the lock released and the value as it was before the
\* acquire; a non-blocking acquire right after the unlock succeeds.
C7_LockUnlockRoundTrip ==
    [][\A t \in Threads :
          /\ (pc[t] \in {"Unlocked", "Blocked"} /\ pc'[t] = "Inspecting") =>
                 value' = value
          /\ (/\ pc[t] = "Inspecting" /\ res[t] = "none"
              /\ pc'[t] = "Inspecting" /\ res'[t] = "none") =>
                 value' = value
          /\ (pc[t] = "Inspecting" /\ last'.by = t /\ last'.op = "unlock") =>
                 /\ pc'[t] = "Unlocked"
                 /\ handle'[t] = handle[t]
                 /\ handle'[t] = LockRef
                 /\ holder' = NoThread
                 /\ value' = value
                 /\ LockImmediate(binding, holder' # NoThread, poisoned') = "Ok"
                 /\ try_lock_immediate(handle'[t], "Ok").pc = "Inspecting"]_vars

\* A thread has just unlocked and another thread owns a handle to acquire with.
C7_Witness ==
    \E t, u \in Threads :
        /\ t # u
        /\ last = [by |-> t, op |-> "unlock"]
        /\ pc[t] = "Unlocked"
        /\ holder = NoThread
        /\ pc[u] = "Unlocked"

\* C8: what a later acquirer reads through deref is the value written last.
C8_WriteVisibleToLaterLockers ==
    /\ written.val = value
    /\ \A t \in Threads :
           (pc[t] \in InspectingStates /\ seen[t] # NoVal) => seen[t] = written.val

\* A value was written through an upgraded guard and the guard dropped; a
\* later acquirer has just read the written value through its inspection guard.
C8_Witness ==
    \E t \in Threads :
        /\ last = [by |-> t, op |-> "deref"]
        /\ pc[t] = "Inspecting"
        /\ seen[t] = written.val
        /\ written.val # InitialValue
        /\ written.via = "upgraded"

\* The threads whose guard on the lock is one the protocol names.
HoldsGuard(u) ==
    /\ pc[u] \in InspectingStates \cup UpgradedStates
    /\ guard[u] # "none"

C10_DeclinedProjectionRestores ==
    [][\A t \in Threads :
          (/\ pc[t] = "Inspecting"
           /\ last'.by = t
           /\ last'.op \in TryMapOps
           /\ res'[t] \in {"Err", "Declined"}) =>
              /\ pc'[t] = "Inspecting"
              /\ handle'[t] = handle[t]
              /\ guard'[t] = guard[t]
              /\ holder = t
              /\ holder' = t
              /\ value' = value]_vars

\* The projection operations of the parking_lot binding and of the generic layer
\* that return a mapped guard.
MapOps == {"map", "map_guard", "try_map", "try_map_guard", "try_map_guard_err"}

C12_PoisonReportedWithHandle ==
    /\ (binding = "std" /\ \E u \in Threads : pc[u] = "Dead") => poisoned
    /\ (binding = "std" /\ last.op = "panic" /\ from \in UpgradedStates) =>
           /\ poisoned
           /\ std_lock_blocking(poisoned) = "Poisoned"
    /\ \A t \in Threads :
           (/\ binding = "std"
            /\ \E u \in Threads \ {t} : pc[u] = "Dead"
            /\ last = [by |-> t, op |-> "try_lock_blocking_err"]) =>
               /\ pc[t] = "Unlocked"
               /\ res[t] = "Poisoned"
               /\ handle[t] = LockRef
               /\ guard[t] = "none"

\* A std thread died holding a guard and another thread's try_lock_blocking_err
\* has just returned the poison failure.
C12_Witness ==
    \E t, u \in Threads :
        /\ t # u
        /\ binding = "std"
        /\ pc[u] = "Dead"
        /\ last = [by |-> t, op |-> "try_lock_blocking_err"]
        /\ res[t] = "Poisoned"
        /\ handle[t] = LockRef

\* C13: a try_lock_blocking entered while another holder has the lock returns
\* Err(self): the caller is back in Unlocked with its handle and no guard.
C13_TryLockBlockingFailsWhenHeld ==
    [][\A t \in Threads :
          (/\ pc[t] = "Blocked"
           /\ op[t] = "try_lock_blocking"
           /\ contended[t]
           /\ last' = [by |-> t, op |-> "try_lock_blocking"]) =>
              /\ pc'[t] = "Unlocked"
              /\ res'[t] = "Err"
              /\ handle'[t] = handle[t]
              /\ guard'[t] = "none"]_vars

\* C14: every call of lock_blocking, try_lock_blocking or try_lock_blocking_err
\* eventually returns: a thread suspended in a blocking acquire leaves it.
C14_BlockingAcquireReturns ==
    \A t \in Threads : (pc[t] = "Blocked") ~> (pc[t] # "Blocked")

\* The operations of SafeLock and SafeGuard that move a caller between the
\* protocol's states.
AcquireOps == {"lock_blocking"} \cup TryAcquireOps
ProtocolOps == AcquireOps \cup MapOps \cup {"upgrade", "unlock"}

\* The transition the last operation made: the state its caller was in when it
\* was called (a suspended acquire was called in Unlocked), the operation's
\* kind, and the state its caller is in now.
LastTransition ==
    << IF from = "Blocked" THEN "Unlocked" ELSE from,
       IF last.op \in AcquireOps THEN "acquire"
       ELSE IF last.op \in MapOps THEN "projection" ELSE last.op,
       pc[last.by] >>

ClaimedTransitions ==
    { <<"Unlocked", "acquire", "Inspecting">>,
      <<"Unlocked", "acquire", "Unlocked">>,
      <<"Inspecting", "unlock", "Unlocked">>,
      <<"Inspecting", "upgrade", "Mutable">>,
      <<"Inspecting", "projection", "MappedInspecting">>,
      <<"MappedInspecting", "unlock", "Unlocked">>,
      <<"MappedInspecting", "upgrade", "MappedMutable">> }

C16_AcquireOutcomes ==
    [][\A t \in Threads :
          LET held == holder # NoThread
              acquired == pc'[t] = "Inspecting" /\ guard'[t] = "whole" /\ holder' = t
          IN  /\ (/\ binding = "std" /\ pc[t] = "Unlocked"
                  /\ last' = [by |-> t, op |-> "try_lock_immediate_err"]) =>
                     /\ acquired <=> (~held /\ ~poisoned)
                     /\ (pc'[t] = "Unlocked" /\ res'[t] = "WouldBlock") <=> held
                     /\ (pc'[t] = "Unlocked" /\ res'[t] = "Poisoned") <=>
                            (~held /\ poisoned)
              /\ (/\ binding = "std" /\ pc[t] = "Unlocked"
                  /\ last' = [by |-> t, op |-> "try_lock_immediate"]) =>
                     /\ acquired <=> (~held /\ ~poisoned)
                     /\ (/\ pc'[t] = "Unlocked" /\ res'[t] = "Err"
                         /\ handle'[t] = handle[t]) <=> (held \/ poisoned)
              /\ (/\ binding = "parking_lot" /\ pc[t] = "Unlocked"
                  /\ last' = [by |-> t, op |-> "try_lock_immediate_err"]) =>
                     /\ acquired <=> ~held
                     /\ (pc'[t] = "Unlocked" /\ res'[t] = "Unit") <=> held
              /\ (/\ binding = "parking_lot" /\ pc[t] = "Blocked"
                  /\ last'.by = t
                  /\ last'.op \in BlockingOps("parking_lot")) =>
                     /\ acquired
                     /\ res'[t] = "none"]_vars

\* A std try_lock_immediate_err has just failed with the contention failure on
\* a lock that another thread holds through an inspection guard.
C16_Witness ==
    \E t \in Threads :
        /\ binding = "std"
        /\ last = [by |-> t, op |-> "try_lock_immediate_err"]
        /\ pc[t] = "Unlocked"
        /\ res[t] = "WouldBlock"
        /\ holder \notin {t, NoThread}
        /\ pc[holder] \in InspectingStates

\* C17: a thread that terminates abnormally while it holds only an inspection
\* guard releases the lock; in the std binding the lock is poisoned by it even
\* though nothing was written, and a try_lock_blocking_err by another thread
\* returns the poison failure; in the parking_lot binding the lock is never
\* poisoned and the acquires of another thread succeed.
C17_InspectionGuardPoisons ==
    /\ binding = "parking_lot" => ~poisoned
    /\ (last.op = "panic" /\ from = "Inspecting") =>
           /\ holder = NoThread
           /\ pc[last.by] = "Dead"
           /\ value = written.val
           /\ binding = "std" =>
                  /\ poisoned
                  /\ try_lock_blocking_err(LockRef, LockBlocking(binding, poisoned)) =
                         Owned("Unlocked", LockRef, "none", "Poisoned")
           /\ binding = "parking_lot" =>
                  /\ try_lock_blocking_err(LockRef, LockBlocking(binding, poisoned)).pc =
                         "Inspecting"
                  /\ try_lock_immediate(LockRef,
                                        LockImmediate(binding, FALSE, poisoned)).pc =
                         "Inspecting"
    /\ \A t \in Threads :
           last = [by |-> t, op |-> "try_lock_blocking_err"] =>
               IF poisoned
               THEN binding = "std" /\ pc[t] = "Unlocked" /\ res[t] = "Poisoned"
               ELSE pc[t] = "Inspecting" /\ holder = t

\* A std thread has just died holding an inspection guard on a value nobody
\* ever wrote, while another thread is about to acquire.
C17_Witness ==
    \E t, u \in Threads :
        /\ t # u
        /\ binding = "std"
        /\ last = [by |-> t, op |-> "panic"]
        /\ from = "Inspecting"
        /\ written.via = "none"
        /\ poisoned
        /\ pc[u] = "Blocked"
        /\ op[u] = "try_lock_blocking_err"

\* C18: in the std binding, once the lock is poisoned it stays poisoned, no
\* acquire reaches Inspecting again, every completed try_lock_blocking,
\* try_lock_blocking_err, try_lock_immediate and try_lock_immediate_err hands
\* its handle back in Unlocked, and the protected value stays as it is.
C18_PoisonedLockStaysAsLeft ==
    [][(binding = "std" /\ poisoned) =>
          /\ poisoned'
          /\ \A t \in Threads :
                 /\ pc'[t] = "Inspecting" => pc[t] = "Inspecting"
                 /\ (last'.by = t /\ last'.op \in TryAcquireOps) =>
                        /\ pc'[t] = "Unlocked"
                        /\ handle'[t] = LockRef
                        /\ res'[t] # "none"
          /\ value' = value]_vars

====
